---- MODULE Spec2Model ----
(***************************************************************************)
(* A model of the order-statistic Left-Leaning Red-Black tree of           *)
(* src/llrb/llrb.go.  A *Node is a record value; the tree is strictly      *)
(* owned (no node is shared), so the in-place updates of the Go code are   *)
(* rendered as functional updates of the node values.                      *)
(***************************************************************************)
EXTENDS Integers, Sequences, FiniteSets, TLC

(* ------------------------------ bounds --------------------------------- *)
\* keys of the items handed to the tree are 1..MaxKey
MaxKey == 4
\* number of public operations in one behaviour
MaxSteps == 6
\* keys of the items of the insertion-only specifications
MaxInsertKey == 5

Keys == 1..MaxKey
\* the insertion-only specifications draw their keys from 1..MaxInsertKey
InsertKeys == 1..MaxInsertKey

VARIABLES
    root,      \* LLRB.root
    count,     \* LLRB.count
    last,      \* the last public call: its name, argument, result and panic
    steps,     \* number of public calls made so far
    inserted   \* history: the items inserted, in the order of the calls (kept by
               \* the insertion-only specifications, empty elsewhere)

vars == <<root, count, last, steps, inserted>>

(* ------------------------------ values --------------------------------- *)
\* the nil *Node
NilNode == [nil |-> "node"]
\* the nil Item
NilItem == [nil |-> "item"]
\* the sentinels of Inf(sign)
pinf == [inf |-> 1]
ninf == [inf |-> -1]

\* an Item of the test type Int: its order is key, tag tells apart two
\* values of equal order (the identity of the Go value)
MkItem(k, t) == [key |-> k, tag |-> t]

\* a panic raised inside an operation, propagated to the public call
Panic(msg) == [panic |-> msg]
IsPanic(x) == "panic" \in DOMAIN x

\* the (node, item) pair returned by the recursive helpers
Ret(n, it) == IF IsPanic(n) THEN n ELSE [node |-> n, item |-> it]

less(x, y) ==
    IF x = pinf THEN FALSE
    ELSE IF x = ninf THEN TRUE
    ELSE x.key < y.key

newNode(item) ==
    [Item |-> item, Left |-> NilNode, Right |-> NilNode,
     Black |-> FALSE, NDescendants |-> 1]

isRed(h) == IF h = NilNode THEN FALSE ELSE ~h.Black

size(h) == IF h = NilNode THEN 0 ELSE h.NDescendants

(* ------------------------ node manipulation ---------------------------- *)
rotateLeft(h) ==
    IF h.Right = NilNode THEN Panic("nil dereference")
    ELSE LET parentSize == h.NDescendants
             leftChildSize == size(h.Left)
             rightChildL1LeftChildL2Size == size(h.Right.Left)
             x == h.Right
         IN  IF x.Black THEN Panic("rotating a black link")
             ELSE [x EXCEPT
                     !.Left = [h EXCEPT
                                 !.Right = x.Left,
                                 !.Black = FALSE,
                                 !.NDescendants =
                                     leftChildSize + rightChildL1LeftChildL2Size + 1],
                     !.Black = h.Black,
                     !.NDescendants = parentSize]

\* rotateRight with the wrong subtree handed over to h (x.Left for x.Right)
rotateRightWrongChild(h) ==
    IF h.Left = NilNode THEN Panic("nil dereference")
    ELSE LET parentSize == h.NDescendants
             rightChildSize == size(h.Right)
             leftChildL1rightChildL2Size == size(h.Left.Right)
             x == h.Left
         IN  IF x.Black THEN Panic("rotating a black link")
             ELSE [x EXCEPT
                     !.Right = [h EXCEPT
                                  !.Left = x.Left,
                                  !.Black = FALSE,
                                  !.NDescendants =
                                      rightChildSize + leftChildL1rightChildL2Size],
                     !.Black = h.Black,
                     !.NDescendants = parentSize]

rotateRight(h) ==
    IF h.Left = NilNode THEN Panic("nil dereference")
    ELSE LET parentSize == h.NDescendants
             rightChildSize == size(h.Right)
             leftChildL1rightChildL2Size == size(h.Left.Right)
             x == h.Left
         IN  IF x.Black THEN Panic("rotating a black link")
             ELSE [x EXCEPT
                     !.Right = [h EXCEPT
                                  !.Left = x.Right,
                                  !.Black = FALSE,
                                  !.NDescendants =
                                      rightChildSize + leftChildL1rightChildL2Size],
                     !.Black = h.Black,
                     !.NDescendants = parentSize]

flip(h) ==
    IF h.Left = NilNode \/ h.Right = NilNode THEN Panic("nil dereference")
    ELSE [h EXCEPT !.Black = ~h.Black,
                   !.Left = [h.Left EXCEPT !.Black = ~h.Left.Black],
                   !.Right = [h.Right EXCEPT !.Black = ~h.Right.Black]]

moveRedLeft(h) ==
    LET h1 == flip(h) IN
    IF IsPanic(h1) THEN h1
    ELSE IF isRed(h1.Right.Left)
         THEN LET r == rotateRight(h1.Right) IN
              IF IsPanic(r) THEN r
              ELSE LET h2 == rotateLeft([h1 EXCEPT !.Right = r]) IN
                   IF IsPanic(h2) THEN h2 ELSE flip(h2)
         ELSE h1

moveRedRight(h) ==
    LET h1 == flip(h) IN
    IF IsPanic(h1) THEN h1
    ELSE IF isRed(h1.Left.Left)
         THEN LET h2 == rotateRight(h1) IN
              IF IsPanic(h2) THEN h2 ELSE flip(h2)
         ELSE h1

\* fixUp that leaves two red links in a row on the left
fixUpNoRotateRight(h) ==
    LET h1 == IF isRed(h.Right) THEN rotateLeft(h) ELSE h IN
    IF IsPanic(h1) THEN h1
    ELSE IF isRed(h1.Left) /\ isRed(h1.Right) THEN flip(h1) ELSE h1

fixUp(h) ==
    LET h1 == IF isRed(h.Right) THEN rotateLeft(h) ELSE h IN
    IF IsPanic(h1) THEN h1
    ELSE LET h2 == IF isRed(h1.Left) /\ isRed(h1.Left.Left)
                   THEN rotateRight(h1) ELSE h1 IN
         IF IsPanic(h2) THEN h2
         ELSE IF isRed(h2.Left) /\ isRed(h2.Right) THEN flip(h2) ELSE h2

walkDownRot23(h) == h

\* walkUpRot23 without the left rotation of a red right link
walkUpRot23NoRotateLeft(h) ==
    LET h2 == IF isRed(h.Left) /\ isRed(h.Left.Left)
              THEN rotateRight(h) ELSE h IN
    IF IsPanic(h2) THEN h2
    ELSE IF isRed(h2.Left) /\ isRed(h2.Right) THEN flip(h2) ELSE h2

walkUpRot23(h) ==
    LET h1 == IF isRed(h.Right) /\ ~isRed(h.Left) THEN rotateLeft(h) ELSE h IN
    IF IsPanic(h1) THEN h1
    ELSE LET h2 == IF isRed(h1.Left) /\ isRed(h1.Left.Left)
                   THEN rotateRight(h1) ELSE h1 IN
         IF IsPanic(h2) THEN h2
         ELSE IF isRed(h2.Left) /\ isRed(h2.Right) THEN flip(h2) ELSE h2

(* ----------------------------- insertion ------------------------------- *)
\* replaceOrInsert that returns the stored item of equal order and leaves
\* it in the node
RECURSIVE replaceOrInsertKeepsOld(_, _)
replaceOrInsertKeepsOld(h, item) ==
    IF h = NilNode THEN Ret(newNode(item), NilItem)
    ELSE LET h0 == walkDownRot23(h) IN
         IF less(item, h0.Item)
         THEN LET r == replaceOrInsertKeepsOld(h0.Left, item) IN
              IF IsPanic(r) THEN r
              ELSE Ret(walkUpRot23([h0 EXCEPT !.Left = r.node]), r.item)
         ELSE IF less(h0.Item, item)
         THEN LET r == replaceOrInsertKeepsOld(h0.Right, item) IN
              IF IsPanic(r) THEN r
              ELSE Ret(walkUpRot23([h0 EXCEPT !.Right = r.node]), r.item)
         ELSE Ret(walkUpRot23(h0), h0.Item)

RECURSIVE replaceOrInsert(_, _)
replaceOrInsert(h, item) ==
    IF h = NilNode THEN Ret(newNode(item), NilItem)
    ELSE LET h0 == walkDownRot23(h) IN
         IF less(item, h0.Item)
         THEN LET r == replaceOrInsert(h0.Left, item) IN
              IF IsPanic(r) THEN r
              ELSE Ret(walkUpRot23([h0 EXCEPT !.Left = r.node]), r.item)
         ELSE IF less(h0.Item, item)
         THEN LET r == replaceOrInsert(h0.Right, item) IN
              IF IsPanic(r) THEN r
              ELSE Ret(walkUpRot23([h0 EXCEPT !.Right = r.node]), r.item)
         ELSE Ret(walkUpRot23([h0 EXCEPT !.Item = item]), h0.Item)

\* insertNoReplace that routes an item of equal order to the left subtree
RECURSIVE insertNoReplaceTiesLeft(_, _)
insertNoReplaceTiesLeft(h, item) ==
    IF h = NilNode THEN newNode(item)
    ELSE LET h0 == walkDownRot23(h)
             h1 == [h0 EXCEPT !.NDescendants = h0.NDescendants + 1]
         IN  IF ~less(h1.Item, item)
             THEN LET r == insertNoReplaceTiesLeft(h1.Left, item) IN
                  IF IsPanic(r) THEN r
                  ELSE walkUpRot23([h1 EXCEPT !.Left = r])
             ELSE LET r == insertNoReplaceTiesLeft(h1.Right, item) IN
                  IF IsPanic(r) THEN r
                  ELSE walkUpRot23([h1 EXCEPT !.Right = r])

RECURSIVE insertNoReplace(_, _)
insertNoReplace(h, item) ==
    IF h = NilNode THEN newNode(item)
    ELSE LET h0 == walkDownRot23(h)
             h1 == [h0 EXCEPT !.NDescendants = h0.NDescendants + 1]
         IN  IF less(item, h1.Item)
             THEN LET r == insertNoReplace(h1.Left, item) IN
                  IF IsPanic(r) THEN r
                  ELSE walkUpRot23([h1 EXCEPT !.Left = r])
             ELSE LET r == insertNoReplace(h1.Right, item) IN
                  IF IsPanic(r) THEN r
                  ELSE walkUpRot23([h1 EXCEPT !.Right = r])

(* ----------------------------- deletion -------------------------------- *)
RECURSIVE deleteMin(_)
deleteMin(h) ==
    IF h = NilNode THEN Ret(NilNode, NilItem)
    ELSE IF h.Left = NilNode THEN Ret(NilNode, h.Item)
    ELSE LET h1 == IF ~isRed(h.Left) /\ ~isRed(h.Left.Left)
                   THEN moveRedLeft(h) ELSE h IN
         IF IsPanic(h1) THEN h1
         ELSE LET r == deleteMin(h1.Left) IN
              IF IsPanic(r) THEN r
              ELSE Ret(fixUp([h1 EXCEPT !.Left = r.node]), r.item)

RECURSIVE deleteMax(_)
deleteMax(h) ==
    IF h = NilNode THEN Ret(NilNode, NilItem)
    ELSE LET h1 == IF isRed(h.Left) THEN rotateRight(h) ELSE h IN
         IF IsPanic(h1) THEN h1
         ELSE IF h1.Right = NilNode THEN Ret(NilNode, h1.Item)
         ELSE LET h2 == IF ~isRed(h1.Right) /\ ~isRed(h1.Right.Left)
                        THEN moveRedRight(h1) ELSE h1 IN
              IF IsPanic(h2) THEN h2
              ELSE LET r == deleteMax(h2.Right) IN
                   IF IsPanic(r) THEN r
                   ELSE Ret(fixUp([h2 EXCEPT !.Right = r.node]), r.item)

RECURSIVE delete(_, _)
delete(h, item) ==
    IF h = NilNode THEN Ret(NilNode, NilItem)
    ELSE IF less(item, h.Item)
    THEN IF h.Left = NilNode THEN Ret(h, NilItem)
         ELSE LET h1 == IF ~isRed(h.Left) /\ ~isRed(h.Left.Left)
                        THEN moveRedLeft(h) ELSE h IN
              IF IsPanic(h1) THEN h1
              ELSE LET r == delete(h1.Left, item) IN
                   IF IsPanic(r) THEN r
                   ELSE Ret(fixUp([h1 EXCEPT !.Left = r.node]), r.item)
    ELSE LET h1 == IF isRed(h.Left) THEN rotateRight(h) ELSE h IN
         IF IsPanic(h1) THEN h1
         ELSE IF ~less(h1.Item, item) /\ h1.Right = NilNode
         THEN Ret(NilNode, h1.Item)
         ELSE LET h2 == IF h1.Right # NilNode /\ ~isRed(h1.Right)
                           /\ ~isRed(h1.Right.Left)
                        THEN moveRedRight(h1) ELSE h1 IN
              IF IsPanic(h2) THEN h2
              ELSE IF ~less(h2.Item, item)
              THEN LET r == deleteMin(h2.Right) IN
                   IF IsPanic(r) THEN r
                   ELSE IF r.item = NilItem THEN Panic("logic")
                   ELSE Ret(fixUp([h2 EXCEPT !.Right = r.node, !.Item = r.item]),
                            h2.Item)
              ELSE LET r == delete(h2.Right, item) IN
                   IF IsPanic(r) THEN r
                   ELSE Ret(fixUp([h2 EXCEPT !.Right = r.node]), r.item)

(* ------------------------------ queries -------------------------------- *)
\* LLRB.Len of the tree whose count field is c
LLRBLen(c) == c

RECURSIVE GetFrom(_, _)
GetFrom(h, key) ==
    IF h = NilNode THEN NilItem
    ELSE IF less(key, h.Item) THEN GetFrom(h.Left, key)
    ELSE IF less(h.Item, key) THEN GetFrom(h.Right, key)
    ELSE h.Item

Get(t, key) == GetFrom(t, key)

Has(t, key) == Get(t, key) # NilItem

RECURSIVE MinFrom(_)
MinFrom(h) == IF h.Left # NilNode THEN MinFrom(h.Left) ELSE h.Item

Min(t) == IF t = NilNode THEN NilItem ELSE MinFrom(t)

RECURSIVE MaxFrom(_)
MaxFrom(h) == IF h.Right # NilNode THEN MaxFrom(h.Right) ELSE h.Item

Max(t) == IF t = NilNode THEN NilItem ELSE MaxFrom(t)

RECURSIVE getByRank(_, _)
getByRank(h, r) ==
    IF h = NilNode THEN NilNode
    ELSE LET hRank == size(h.Left) + 1 IN
         IF r = hRank THEN h
         ELSE IF r < hRank
              THEN IF h.Left = NilNode THEN NilNode ELSE getByRank(h.Left, r)
              ELSE IF h.Right = NilNode THEN NilNode
                   ELSE getByRank(h.Right, r - hRank)

GetByRank(t, r) ==
    LET node == getByRank(t, r) IN
    IF node = NilNode
    THEN IF r <= 0 THEN Min(t) ELSE Max(t)
    ELSE node.Item

\* the search path of get: the nodes from the root down, ended by the nil
\* *Node when no node of the same order as key is met
RECURSIVE getPath(_, _, _)
getPath(h, key, path) ==
    IF h = NilNode THEN Append(path, NilNode)
    ELSE IF less(key, h.Item) THEN getPath(h.Left, key, Append(path, h))
    ELSE IF less(h.Item, key) THEN getPath(h.Right, key, Append(path, h))
    ELSE Append(path, h)

get(t, key) == getPath(t, key, <<>>)

\* a *Node returned where an Item is declared: an interface value that
\* holds the pointer, and so differs from the nil Item even for a nil *Node
NodeAsItem(n) == [iface |-> "*Node", node |-> n]

\* the nodes of the tree are pairwise distinct values (the tags of their
\* items differ), so the pointer comparison path[i] == path[i-1].Right is
\* the comparison of the node values
RECURSIVE rankWalk(_, _, _)
rankWalk(path, i, r) ==
    IF i < 1 THEN r
    ELSE IF path[i] = NilNode THEN rankWalk(path, i - 1, r)
    ELSE IF i - 1 < 1 \/ path[i - 1] = NilNode THEN rankWalk(path, i - 1, r)
    ELSE IF path[i] = path[i - 1].Right
         THEN rankWalk(path, i - 1, r + size(path[i - 1].Left) + 1)
         ELSE rankWalk(path, i - 1, r)

getRankOf(path, key) ==
    IF Len(path) < 1 THEN <<0, NilItem>>
    ELSE LET foundItem == path[Len(path)] IN
         IF foundItem # NilNode
         THEN <<rankWalk(path, Len(path), size(foundItem.Left) + 1),
                NodeAsItem(foundItem)>>
         ELSE IF Len(path) < 2 THEN <<0, NilItem>>
              ELSE <<rankWalk(path, Len(path),
                              size(path[Len(path) - 1].Left) + 1),
                     NodeAsItem(foundItem)>>

GetRankOf(t, key) == getRankOf(get(t, key), key)

(* ------------------------------ actions -------------------------------- *)
\* an internal panic ends the run; the panic of a nil argument is raised
\* before anything is written and may be recovered by the caller
Alive == last.panic \in {"none", "inserting nil item"}

Call(op, arg, ret, panic) == [op |-> op, arg |-> arg, ret |-> ret, panic |-> panic]

New ==
    /\ root = NilNode
    /\ count = 0
    /\ last = Call("New", NilItem, NilItem, "none")
    /\ steps = 0
    /\ inserted = <<>>

\* a panic raised below the public call: the call does not return.  The nil
\* argument is refused before anything is written; after any other panic
\* the run ends (Alive), so the half-updated nodes are never read and the
\* tree is left as the call found it.
Abort(op, arg, p) ==
    /\ last' = Call(op, arg, NilItem, p.panic)
    /\ UNCHANGED <<root, count>>

\* ReplaceOrInsert that counts every call, a replacement included
ReplaceOrInsertCountsAll(item) ==
    /\ Alive
    /\ steps < MaxSteps
    /\ steps' = steps + 1
    /\ IF item = NilItem
       THEN Abort("ReplaceOrInsert", item, Panic("inserting nil item"))
       ELSE LET r == replaceOrInsert(root, item) IN
            IF IsPanic(r) THEN Abort("ReplaceOrInsert", item, r)
            ELSE /\ root' = [r.node EXCEPT !.Black = TRUE]
                 /\ count' = count + 1
                 /\ last' = Call("ReplaceOrInsert", item, r.item, "none")

ReplaceOrInsert(item) ==
    /\ Alive
    /\ steps < MaxSteps
    /\ steps' = steps + 1
    /\ IF item = NilItem
       THEN Abort("ReplaceOrInsert", item, Panic("inserting nil item"))
       ELSE LET r == replaceOrInsert(root, item) IN
            IF IsPanic(r) THEN Abort("ReplaceOrInsert", item, r)
            ELSE /\ root' = [r.node EXCEPT !.Black = TRUE]
                 /\ count' = IF r.item = NilItem THEN count + 1 ELSE count
                 /\ last' = Call("ReplaceOrInsert", item, r.item, "none")

\* InsertNoReplace that counts the item before it looks at it
InsertNoReplaceCountsFirst(item) ==
    /\ Alive
    /\ steps < MaxSteps
    /\ steps' = steps + 1
    /\ IF item = NilItem
       THEN /\ last' = Call("InsertNoReplace", item, NilItem, "inserting nil item")
            /\ root' = root
            /\ count' = count + 1
       ELSE LET r == insertNoReplace(root, item) IN
            IF IsPanic(r) THEN Abort("InsertNoReplace", item, r)
            ELSE /\ root' = [r EXCEPT !.Black = TRUE]
                 /\ count' = count + 1
                 /\ last' = Call("InsertNoReplace", item, NilItem, "none")

InsertNoReplace(item) ==
    /\ Alive
    /\ steps < MaxSteps
    /\ steps' = steps + 1
    /\ IF item = NilItem
       THEN Abort("InsertNoReplace", item, Panic("inserting nil item"))
       ELSE LET r == insertNoReplace(root, item) IN
            IF IsPanic(r) THEN Abort("InsertNoReplace", item, r)
            ELSE /\ root' = [r EXCEPT !.Black = TRUE]
                 /\ count' = count + 1
                 /\ last' = Call("InsertNoReplace", item, NilItem, "none")

\* the tail shared by DeleteMin, DeleteMax and Delete
Deleted(op, arg, r) ==
    IF IsPanic(r) THEN Abort(op, arg, r)
    ELSE /\ root' = IF r.node # NilNode THEN [r.node EXCEPT !.Black = TRUE]
                    ELSE NilNode
         /\ count' = IF r.item # NilItem THEN count - 1 ELSE count
         /\ last' = Call(op, arg, r.item, "none")

DeleteMin ==
    /\ Alive
    /\ steps < MaxSteps
    /\ steps' = steps + 1
    /\ Deleted("DeleteMin", NilItem, deleteMin(root))

DeleteMax ==
    /\ Alive
    /\ steps < MaxSteps
    /\ steps' = steps + 1
    /\ Deleted("DeleteMax", NilItem, deleteMax(root))

Delete(key) ==
    /\ Alive
    /\ steps < MaxSteps
    /\ steps' = steps + 1
    /\ Deleted("Delete", key, delete(root, key))

(* -------------------------- specifications ----------------------------- *)
\* the items stored in the subtree h
RECURSIVE ItemsOf(_)
ItemsOf(h) ==
    IF h = NilNode THEN {}
    ELSE ItemsOf(h.Left) \cup {h.Item} \cup ItemsOf(h.Right)

\* the item of key k handed to the next insert call: a value that no stored
\* item is identical to (the least tag free among the stored items of key k)
NewItem(k) ==
    MkItem(k, CHOOSE t \in 1..(count + 1) :
                  /\ MkItem(k, t) \notin ItemsOf(root)
                  /\ \A u \in 1..(t - 1) : MkItem(k, u) \in ItemsOf(root))
\* a key to look up or delete: only its order matters
Probe(k) == MkItem(k, 0)

Init == New

\* every public mutating operation, nil arguments included
Next ==
    \/ \E k \in Keys : ReplaceOrInsert(NewItem(k)) /\ UNCHANGED inserted
    \/ \E k \in Keys : InsertNoReplace(NewItem(k)) /\ UNCHANGED inserted
    \/ ReplaceOrInsert(NilItem) /\ UNCHANGED inserted
    \/ InsertNoReplace(NilItem) /\ UNCHANGED inserted
    \/ \E k \in Keys : Delete(Probe(k)) /\ UNCHANGED inserted
    \/ DeleteMin /\ UNCHANGED inserted
    \/ DeleteMax /\ UNCHANGED inserted

Spec == Init /\ [][Next]_vars

\* ReplaceOrInsert alone, with the log of the inserted items
NextROI ==
    \E k \in InsertKeys :
        /\ ReplaceOrInsert(NewItem(k))
        /\ inserted' = Append(inserted, NewItem(k))

SpecROI == Init /\ [][NextROI]_vars

\* InsertNoReplace alone, with the log of the inserted items
NextINR ==
    \E k \in InsertKeys :
        /\ InsertNoReplace(NewItem(k))
        /\ inserted' = Append(inserted, NewItem(k))

SpecINR == Init /\ [][NextINR]_vars

(* ----------------------- what the claims speak of ---------------------- *)
\* the stored items in in-order (left subtree, node, right subtree)
RECURSIVE InOrder(_)
InOrder(h) ==
    IF h = NilNode THEN <<>>
    ELSE InOrder(h.Left) \o <<h.Item>> \o InOrder(h.Right)

\* the nodes of the subtree h, h included
RECURSIVE NodesOf(_)
NodesOf(h) ==
    IF h = NilNode THEN {}
    ELSE NodesOf(h.Left) \cup {h} \cup NodesOf(h.Right)

\* the number of nodes really in the subtree h
RECURSIVE NodeCount(_)
NodeCount(h) ==
    IF h = NilNode THEN 0 ELSE 1 + NodeCount(h.Left) + NodeCount(h.Right)

\* the numbers of black links met on the paths from above h down to a nil child
RECURSIVE BlackHeights(_)
BlackHeights(h) ==
    IF h = NilNode THEN {0}
    ELSE {n + (IF h.Black THEN 1 ELSE 0) :
              n \in BlackHeights(h.Left) \cup BlackHeights(h.Right)}

SameOrder(x, y) == ~less(x, y) /\ ~less(y, x)

StrictlyAscending(s) == \A i \in 1..(Len(s) - 1) : less(s[i], s[i + 1])
NonDecreasing(s) == \A i \in 1..(Len(s) - 1) : ~less(s[i + 1], s[i])
DistinctKeys(h) == \A i, j \in 1..Len(InOrder(h)) :
                       i # j => ~SameOrder(InOrder(h)[i], InOrder(h)[j])

\* the last call returned (it raised no panic)
Returned(op) == last.op = op /\ last.panic = "none"
Mutators == {"ReplaceOrInsert", "InsertNoReplace", "Delete", "DeleteMin", "DeleteMax"}
AfterMutator == last.op \in Mutators /\ last.panic = "none"

(* ------------------------------- claims -------------------------------- *)
\* C1: after every mutating public operation returns, every node h of the
\* tree has h.NDescendants = 1 + size(h.Left) + size(h.Right), and the
\* root's NDescendants equals Len().
C1_SizeConsistency ==
    AfterMutator =>
        /\ \A h \in NodesOf(root) :
               h.NDescendants = 1 + size(h.Left) + size(h.Right)
        /\ size(root) = LLRBLen(count)

\* C2 as stated: after every mutating public operation returns, the items of
\* every left subtree are strictly less than the node's item, those of every
\* right subtree strictly greater, and the in-order sequence is strictly
\* ascending.
C2_StrictOrder ==
    AfterMutator =>
        /\ \A h \in NodesOf(root) :
               /\ \A x \in ItemsOf(h.Left) : less(x, h.Item)
               /\ \A x \in ItemsOf(h.Right) : less(h.Item, x)
        /\ StrictlyAscending(InOrder(root))

\* C2 as amended: after every mutating public operation returns, no item of a
\* left subtree is greater than the node's item and no item of a right
\* subtree is less, and the in-order sequence is non-decreasing.
C2_Order ==
    AfterMutator =>
        /\ \A h \in NodesOf(root) :
               /\ \A x \in ItemsOf(h.Left) : ~less(h.Item, x)
               /\ \A x \in ItemsOf(h.Right) : ~less(x, h.Item)
        /\ NonDecreasing(InOrder(root))

\* a Delete has removed an item from a tree that still holds two items of
\* equal order beside others
C2_Witness ==
    /\ Returned("Delete")
    /\ last.ret # NilItem
    /\ count >= 4
    /\ ~DistinctKeys(root)

\* C3: after every mutating public operation returns, every path from the
\* root to a nil child crosses the same number of black links.
C3_BlackBalance ==
    AfterMutator => Cardinality(BlackHeights(root)) = 1

\* C4: after every mutating public operation returns, the root is black, no
\* node has a red right child and no red node has a red left child.
C4_LeftLeaning ==
    AfterMutator =>
        /\ root # NilNode => root.Black
        /\ \A h \in NodesOf(root) :
               /\ ~isRed(h.Right)
               /\ ~(isRed(h) /\ isRed(h.Left))

\* a deletion has returned an item and left a tree with a red left link
C4_Witness ==
    /\ last.op \in {"Delete", "DeleteMin", "DeleteMax"}
    /\ last.panic = "none"
    /\ last.ret # NilItem
    /\ count >= 4
    /\ \E h \in NodesOf(root) : isRed(h.Left)

\* C5: GetByRank(i), for i = 1..Len(), is the i-th smallest stored item: it
\* returns each stored item once, in ascending order.
C5_GetByRank ==
    AfterMutator =>
        \A i \in 1..LLRBLen(count) :
            /\ i <= Len(InOrder(root))
            /\ GetByRank(root, i) = InOrder(root)[i]

\* C6: for every stored key k, GetRankOf(k) returns the node that holds k
\* and the rank r that is k's position in ascending order, and GetByRank(r)
\* returns k.
C6_RankRoundTrip ==
    (AfterMutator /\ last.op \in {"ReplaceOrInsert", "InsertNoReplace", "Delete"}) =>
        \A k \in Keys :
            Has(root, Probe(k)) =>
                LET res == GetRankOf(root, Probe(k)) IN
                /\ res[1] \in 1..Len(InOrder(root))
                /\ SameOrder(InOrder(root)[res[1]], Probe(k))
                /\ res[2] # NilItem
                /\ SameOrder(res[2].node.Item, Probe(k))
                /\ SameOrder(GetByRank(root, res[1]), Probe(k))

\* the keys of the items in the log of inserted items
InsertedKeys == {inserted[i].key : i \in 1..Len(inserted)}

\* C7: after any sequence of ReplaceOrInsert calls, Len() is the number of
\* distinct keys inserted and Has(k) is true for exactly the inserted keys.
C7_ReplaceOrInsertSet ==
    /\ LLRBLen(count) = Cardinality(InsertedKeys)
    /\ \A k \in InsertKeys : Has(root, Probe(k)) <=> k \in InsertedKeys

\* a key was inserted again into a tree of three keys, one key never was
C7_Witness ==
    /\ Returned("ReplaceOrInsert")
    /\ last.ret # NilItem
    /\ count >= 3
    /\ Len(inserted) > count
    /\ \E k \in InsertKeys : ~Has(root, Probe(k))

\* C8: a ReplaceOrInsert(item) that finds a stored item of equal order
\* returns that item, puts the new item in its place and leaves Len() as it
\* was; one that finds none returns nil, adds the item and increases Len()
\* by exactly 1.
C8_Step ==
    (last'.op = "ReplaceOrInsert" /\ last'.arg # NilItem) =>
        LET item == last'.arg
            old == InOrder(root)
            eq == {i \in 1..Len(old) : SameOrder(old[i], item)}
        IN  /\ last'.panic = "none"
            /\ IF eq # {}
               THEN /\ \E i \in eq :
                        /\ last'.ret = old[i]
                        /\ InOrder(root') = [old EXCEPT ![i] = item]
                    /\ count' = count
               ELSE /\ last'.ret = NilItem
                    /\ \E i \in 1..(Len(old) + 1) :
                        InOrder(root') =
                            SubSeq(old, 1, i - 1) \o <<item>> \o SubSeq(old, i, Len(old))
                    /\ count' = count + 1

\* C8: every step of the model satisfies the ReplaceOrInsert contract above
C8_ReplaceOrInsert == [][C8_Step]_vars

\* an item was replaced in a tree that holds at least three items
C8_Witness ==
    /\ Returned("ReplaceOrInsert")
    /\ last.ret # NilItem
    /\ last.ret # last.arg
    /\ last.arg \in ItemsOf(root)
    /\ count >= 3

\* the position of item x in the log of inserted items
InsertedAt(x) == CHOOSE i \in 1..Len(inserted) : inserted[i] = x

\* C9: every InsertNoReplace increases Len() by 1 and keeps the items stored
\* before; after any sequence of InsertNoReplace calls the in-order sequence
\* is non-decreasing and items of equal order stand in insertion order.
C9_InsertNoReplace ==
    LET s == InOrder(root) IN
    /\ LLRBLen(count) = Len(inserted)
    /\ Len(s) = Len(inserted)
    /\ {s[i] : i \in 1..Len(s)} = {inserted[i] : i \in 1..Len(inserted)}
    /\ NonDecreasing(s)
    /\ \A i, j \in 1..Len(s) :
           (i < j /\ SameOrder(s[i], s[j])) => InsertedAt(s[i]) < InsertedAt(s[j])

\* three items of equal order are stored among items of other orders
C9_Witness ==
    /\ Returned("InsertNoReplace")
    /\ count >= 5
    /\ \E k \in InsertKeys :
           Cardinality({i \in 1..Len(inserted) : inserted[i].key = k}) >= 3
    /\ Cardinality(InsertedKeys) >= 2

\* C10: Delete(key) on a tree of distinct keys that holds key returns the
\* stored item equal to key, decreases Len() by exactly 1, makes Has(key)
\* false and keeps every other stored key.
C10_Step ==
    (/\ last'.op = "Delete"
     /\ steps' = steps + 1
     /\ DistinctKeys(root)
     /\ \E x \in ItemsOf(root) : SameOrder(x, last'.arg)) =>
        /\ last'.panic = "none"
        /\ last'.ret \in ItemsOf(root)
        /\ SameOrder(last'.ret, last'.arg)
        /\ count' = count - 1
        /\ ~Has(root', last'.arg)
        /\ ItemsOf(root') = ItemsOf(root) \ {last'.ret}

\* C10: every step of the model satisfies the Delete contract above
C10_Delete == [][C10_Step]_vars

\* the call made by this step is a Delete of a key that no stored item equals
DeleteOfAbsentKey ==
    /\ last'.op = "Delete"
    /\ steps' = steps + 1
    /\ \A x \in ItemsOf(root) : ~SameOrder(x, last'.arg)

\* C11 as stated: Delete(key) of a key with no stored item of equal order
\* returns nil and leaves Len(), the whole structure (shape, item placement,
\* colours, stored sizes) and the rank of every stored key unchanged.
C11_Step ==
    DeleteOfAbsentKey =>
        /\ last'.panic = "none"
        /\ last'.ret = NilItem
        /\ count' = count
        /\ root' = root
        /\ \A k \in Keys : GetRankOf(root', Probe(k)) = GetRankOf(root, Probe(k))

\* C11: every step of the model satisfies the contract above
C11_DeleteAbsent == [][C11_Step]_vars

\* s without its i-th element
RemoveAt(s, i) == SubSeq(s, 1, i - 1) \o SubSeq(s, i + 1, Len(s))

\* C12: DeleteMin (DeleteMax) on a non-empty tree returns the smallest
\* (largest) stored item, removes exactly that item and decreases Len() by
\* 1; on an empty tree each returns nil and leaves Len() at 0.
C12_Step ==
    LET old == InOrder(root) IN
    /\ (last'.op = "DeleteMin" /\ steps' = steps + 1) =>
           /\ last'.panic = "none"
           /\ IF root = NilNode
              THEN last'.ret = NilItem /\ count' = 0 /\ root' = NilNode
              ELSE /\ last'.ret = old[1]
                   /\ \A x \in ItemsOf(root) : ~less(x, last'.ret)
                   /\ InOrder(root') = RemoveAt(old, 1)
                   /\ count' = count - 1
    /\ (last'.op = "DeleteMax" /\ steps' = steps + 1) =>
           /\ last'.panic = "none"
           /\ IF root = NilNode
              THEN last'.ret = NilItem /\ count' = 0 /\ root' = NilNode
              ELSE /\ last'.ret = old[Len(old)]
                   /\ \A x \in ItemsOf(root) : ~less(last'.ret, x)
                   /\ InOrder(root') = RemoveAt(old, Len(old))
                   /\ count' = count - 1

\* C12: every step of the model satisfies the contract above
C12_DeleteMinMax == [][C12_Step]_vars

\* the number of stored items of the tree t that are less than key
NumLess(t, key) ==
    Cardinality({i \in 1..Len(InOrder(t)) : less(InOrder(t)[i], key)})

\* C13: for a key that is not stored, GetRankOf on a non-empty tree returns
\* the true 1-based rank of the last node of the search path, which is the
\* key's in-order predecessor if the last step went right and its successor
\* if it went left; on an empty tree it returns rank 0.
C13_RankOfAbsent ==
    AfterMutator =>
        \A k \in Keys :
            ~Has(root, Probe(k)) =>
                LET res == GetRankOf(root, Probe(k))
                    path == get(root, Probe(k))
                    s == InOrder(root)
                    n == NumLess(root, Probe(k))
                IN  IF root = NilNode THEN res[1] = 0
                    ELSE LET nb == path[Len(path) - 1] IN
                         IF less(nb.Item, Probe(k))
                         THEN /\ res[1] = n
                              /\ n \in 1..Len(s)
                              /\ s[n] = nb.Item
                         ELSE /\ res[1] = n + 1
                              /\ n + 1 \in 1..Len(s)
                              /\ s[n + 1] = nb.Item

\* C14: the second result of GetRankOf(key) is the nil Item whenever no
\* stored item equals key, on empty and non-empty trees alike, and a non-nil
\* value that identifies the stored item equal to key whenever there is one.
C14_FoundItem ==
    AfterMutator =>
        \A k \in Keys :
            LET res == GetRankOf(root, Probe(k)) IN
            IF \E x \in ItemsOf(root) : SameOrder(x, Probe(k))
            THEN /\ res[2] # NilItem
                 /\ res[2].node # NilNode
                 /\ res[2].node.Item \in ItemsOf(root)
                 /\ SameOrder(res[2].node.Item, Probe(k))
            ELSE res[2] = NilItem

\* how far below 1 and above Len() the ranks asked of GetByRank reach
RankMargin == 2

Ranks == (0 - RankMargin)..(LLRBLen(count) + RankMargin)

\* C15: on any reachable tree GetByRank(r) returns Min() for r <= 0 and
\* Max() for r > Len(), and it returns the nil Item only when the tree is
\* empty, where it does so for every r.
C15_GetByRankBounds ==
    AfterMutator =>
        \A r \in Ranks :
            /\ r <= 0 => GetByRank(root, r) = Min(root)
            /\ r > LLRBLen(count) => GetByRank(root, r) = Max(root)
            /\ GetByRank(root, r) = NilItem <=> LLRBLen(count) = 0

\* a call of ReplaceOrInsert or InsertNoReplace with the nil Item
InsertOfNil ==
    /\ steps' = steps + 1
    /\ last'.op \in {"ReplaceOrInsert", "InsertNoReplace"}
    /\ last'.arg = NilItem

C16_Step ==
    InsertOfNil =>
        /\ last'.panic = "inserting nil item"
        /\ root' = root
        /\ count' = count

\* C16: ReplaceOrInsert(nil) and InsertNoReplace(nil) panic with "inserting
\* nil item" and leave the root, every node below it and Len() unchanged.
C16_InsertNil == [][C16_Step]_vars

\* a nil item has just been refused on a tree of several nodes
C16_Witness ==
    /\ last.op \in {"ReplaceOrInsert", "InsertNoReplace"}
    /\ last.arg = NilItem
    /\ last.panic = "inserting nil item"
    /\ NodeCount(root) >= 2
    /\ count >= 2

\* C17: after any sequence of InsertNoReplace calls from New(), in any key
\* order, every node's NDescendants is 1 + size(Left) + size(Right): the +1
\* each node gets on the way down is neither lost nor counted twice by a
\* rotation on the way up.
C17_InsertOnlySizes ==
    /\ size(root) = Len(inserted)
    /\ \A n \in NodesOf(root) :
           n.NDescendants = 1 + size(n.Left) + size(n.Right)

\* every node of the subtree h counts itself and its two subtrees
RECURSIVE SizesConsistent(_)
SizesConsistent(h) ==
    \/ h = NilNode
    \/ /\ h.NDescendants = 1 + size(h.Left) + size(h.Right)
       /\ SizesConsistent(h.Left)
       /\ SizesConsistent(h.Right)

\* a Delete of a stored key, a DeleteMin or a DeleteMax, on a non-empty tree
\* whose sizes are consistent
DeletionOnConsistentTree ==
    /\ steps' = steps + 1
    /\ root # NilNode
    /\ SizesConsistent(root)
    /\ \/ last'.op \in {"DeleteMin", "DeleteMax"}
       \/ /\ last'.op = "Delete"
          /\ \E x \in ItemsOf(root) : SameOrder(x, last'.arg)

C18_Step ==
    DeletionOnConsistentTree =>
        /\ last'.panic = "none"
        /\ SizesConsistent(root')
        /\ size(root') = size(root) - 1

\* C18: a Delete of a present key, a DeleteMin or a DeleteMax on a non-empty
\* tree whose NDescendants are all consistent leaves every remaining node
\* with NDescendants = 1 + size(Left) + size(Right) and the root's
\* NDescendants smaller by exactly 1.
C18_DeleteSizes == [][C18_Step]_vars

(* ------------------- the rotations as pure functions ------------------- *)
\* the largest subtree handed to a rotation
MaxRotNodes == 4

\* every subtree over the ascending keys s, in every shape and colouring,
\* with consistent sizes
RECURSIVE TreesOver(_)
TreesOver(s) ==
    IF s = <<>> THEN {NilNode}
    ELSE UNION {
           {[Item |-> MkItem(s[i], 1), Left |-> l, Right |-> r, Black |-> b,
             NDescendants |-> Len(s)] :
               l \in TreesOver(SubSeq(s, 1, i - 1)),
               r \in TreesOver(SubSeq(s, i + 1, Len(s))),
               b \in BOOLEAN} :
           i \in 1..Len(s)}

\* the nodes a rotation is applied to: a child is red
RotInputs ==
    {h \in UNION {TreesOver([i \in 1..n |-> i]) : n \in 2..MaxRotNodes} :
        isRed(h.Left) \/ isRed(h.Right)}

InitRot ==
    /\ root \in RotInputs
    /\ count = size(root)
    /\ last = Call("New", NilItem, NilItem, "none")
    /\ steps = 0
    /\ inserted = <<>>

RotateLeft ==
    /\ steps = 0
    /\ isRed(root.Right)
    /\ root' = rotateLeft(root)
    /\ last' = Call("rotateLeft", NilItem, NilItem, "none")
    /\ steps' = 1
    /\ UNCHANGED <<count, inserted>>

RotateRight ==
    /\ steps = 0
    /\ isRed(root.Left)
    /\ root' = rotateRight(root)
    /\ last' = Call("rotateRight", NilItem, NilItem, "none")
    /\ steps' = 1
    /\ UNCHANGED <<count, inserted>>

NextRot ==
    \/ RotateLeft
    \/ RotateRight

SpecRot == InitRot /\ [][NextRot]_vars

\* what a rotation of h into x must keep, h ending as the child demoted of x
Rotated(h, x, demoted) ==
    /\ InOrder(x) = InOrder(h)
    /\ x.NDescendants = h.NDescendants
    /\ x.Black = h.Black
    /\ demoted.Item = h.Item
    /\ ~demoted.Black
    /\ x.NDescendants = 1 + size(x.Left) + size(x.Right)
    /\ demoted.NDescendants = 1 + size(demoted.Left) + size(demoted.Right)

C19_Step ==
    /\ (last'.op = "rotateLeft" /\ steps' = 1) => Rotated(root, root', root'.Left)
    /\ (last'.op = "rotateRight" /\ steps' = 1) => Rotated(root, root', root'.Right)

\* C19: rotateLeft(h) and rotateRight(h), for h with consistent sizes and a
\* red pivot child, return a subtree with the same in-order items whose top
\* node has h's former size and colour, with h demoted and red, and with
\* both nodes' NDescendants equal to 1 + size(Left) + size(Right).
C19_Rotations == [][C19_Step]_vars

(* ------------------- the rebalancing step, on its own ------------------ *)
\* the operations fixUp performs on h, in the order it performs them
fixUpSteps(h) ==
    LET left == isRed(h.Right)
        h1 == IF left THEN rotateLeft(h) ELSE h
        right == isRed(h1.Left) /\ isRed(h1.Left.Left)
        h2 == IF right THEN rotateRight(h1) ELSE h1
    IN  (IF left THEN <<"rotateLeft">> ELSE <<>>)
        \o (IF right THEN <<"rotateRight">> ELSE <<>>)
        \o (IF isRed(h2.Left) /\ isRed(h2.Right) THEN <<"flip">> ELSE <<>>)

\* the operations walkUpRot23 performs on h, in the order it performs them
walkUpRot23Steps(h) ==
    LET left == isRed(h.Right) /\ ~isRed(h.Left)
        h1 == IF left THEN rotateLeft(h) ELSE h
        right == isRed(h1.Left) /\ isRed(h1.Left.Left)
        h2 == IF right THEN rotateRight(h1) ELSE h1
    IN  (IF left THEN <<"rotateLeft">> ELSE <<>>)
        \o (IF right THEN <<"rotateRight">> ELSE <<>>)
        \o (IF isRed(h2.Left) /\ isRed(h2.Right) THEN <<"flip">> ELSE <<>>)

\* the nodes met on a return path: any colouring of a subtree
RebalanceInputs ==
    UNION {TreesOver([i \in 1..n |-> i]) : n \in 1..MaxRotNodes}

InitRebalance ==
    /\ root \in RebalanceInputs
    /\ count = size(root)
    /\ last = Call("New", NilItem, NilItem, "none")
    /\ steps = 0
    /\ inserted = <<>>

\* the step on the return path of deleteMin, deleteMax and delete; the node
\* it is applied to is kept as the argument of the call
FixUp ==
    /\ steps = 0
    /\ root' = fixUp(root)
    /\ last' = Call("fixUp", root, fixUpSteps(root), "none")
    /\ steps' = 1
    /\ UNCHANGED <<count, inserted>>

\* the step on the return path of replaceOrInsert and insertNoReplace
WalkUpRot23 ==
    /\ steps = 0
    /\ root' = walkUpRot23(root)
    /\ last' = Call("walkUpRot23", root, walkUpRot23Steps(root), "none")
    /\ steps' = 1
    /\ UNCHANGED <<count, inserted>>

NextRebalance ==
    \/ FixUp
    \/ WalkUpRot23

SpecRebalance == InitRebalance /\ [][NextRebalance]_vars

\* the step as described: a left rotation if the right link is red and,
\* where guarded, the left link is not; then a right rotation if the left
\* and the left-left links are red; then a flip if both children are red
Described(h, guarded) ==
    LET left == isRed(h.Right) /\ (guarded => ~isRed(h.Left))
        a == IF left THEN rotateLeft(h) ELSE h
        right == isRed(a.Left) /\ isRed(a.Left.Left)
        b == IF right THEN rotateRight(a) ELSE a
        both == isRed(b.Left) /\ isRed(b.Right)
    IN  [steps |-> (IF left THEN <<"rotateLeft">> ELSE <<>>)
                   \o (IF right THEN <<"rotateRight">> ELSE <<>>)
                   \o (IF both THEN <<"flip">> ELSE <<>>),
         node |-> IF both THEN flip(b) ELSE b]

Performed(op, guarded) ==
    last.op = op =>
        /\ last.ret = Described(last.arg, guarded).steps
        /\ root = Described(last.arg, guarded).node

\* C20 as stated: the step on the return path of insertion and of deletion
\* rotates left only if the right link is red and the left link is not,
\* then rotates right if the left and left-left links are red, then flips
\* if both children are red.
C20_AsStated ==
    /\ Performed("walkUpRot23", TRUE)
    /\ Performed("fixUp", TRUE)

\* C20: walkUpRot23, the step of insertion, rotates left only if the right
\* link is red and the left link is not; fixUp, the step of deletion,
\* rotates left whenever the right link is red, the left link red or not.
\* Both then rotate right if the left and left-left links are red, and then
\* flip if both children are red.
C20_Rebalance ==
    /\ Performed("walkUpRot23", TRUE)
    /\ Performed("fixUp", FALSE)

\* fixUp has met a node with two red children and rotated it left, then
\* right, then flipped it
C20_Witness ==
    /\ last.op = "fixUp"
    /\ isRed(last.arg.Left)
    /\ isRed(last.arg.Right)
    /\ last.ret = <<"rotateLeft", "rotateRight", "flip">>

\* the panics raised below the public calls: a rotation of a nil or black
\* pivot child, a flip or move of a node missing a child, and deleteMin
\* returning nothing to delete
InternalPanics == {"nil dereference", "rotating a black link", "logic"}

\* C21: in every sequence of public operations from New(), no rotation meets
\* a nil or black pivot child, no flip, moveRedLeft or moveRedRight meets a
\* node missing a child, and the "logic" panic of delete is not reached: the
\* only panic a call can end with is the refusal of a nil item.
C21_NoInternalPanic == last.panic \notin InternalPanics

====
